---------------------------- MODULE Spec2Model ----------------------------
(***************************************************************************)
(* A model of the sync orchestration engine of youtube-archiver:           *)
(*   backend/app/tasks/task_manager.py   (TaskManager)                     *)
(*   backend/app/api/v1/websocket.py     (subscribers of the broadcast)    *)
(*                                                                         *)
(* The engine runs on one asyncio event loop.  A coroutine runs without    *)
(* interruption from one await to the next, so every action below is the   *)
(* code of one coroutine from the await it was suspended in up to the next *)
(* await that really suspends.  A database write takes effect when the     *)
(* coroutine issues its commit; the coroutine stays suspended in that      *)
(* commit until its next action.  asyncio.Task.cancel() makes the task's   *)
(* next resumption raise CancelledError (a BaseException, which none of    *)
(* the `except Exception` handlers catches).                               *)
(*                                                                         *)
(* Twelve specifications share the variables:                               *)
(*   Spec        the orchestrator: start_sync, stop_sync and the tasks     *)
(*               running _run_sync, over MaxJobs job records;              *)
(*   SpecJob     one job record, every job kind and every failure;         *)
(*   SpecResume  SpecJob with the restart of the process and the resume    *)
(*               of the job found running;                                 *)
(*   SpecHub     broadcast and the websocket subscribers;                  *)
(*   SpecAuto    SyncScheduler beside the orchestrator with one job;       *)
(*   SpecSched   SyncScheduler alone;                                      *)
(*   SpecRetry   one full job over a channel whose downloads fail at first;*)
(*   SpecDownload  VideoDownloader, its worker threads and callbacks;      *)
(*   SpecComments  the comment syncs of one video;                         *)
(*   SpecPaging    one enumeration of a channel, page by page;             *)
(*   SpecConfig    the startup load of the configuration and its updates;  *)
(*   SpecShutdown  racing starts, shutdown() and the next process start.   *)
(*                                                                         *)
(* task_manager.py reads and writes a channel reference on a SyncJob       *)
(* (lines 118-122, 150, 162).  models/sync.py:19-33 declares no such       *)
(* column and the declarative Base of the models is defined in             *)
(* app/db/database.py: channel_column, fixed in the initial state, is      *)
(* whether the class the build maps has the attribute.  Without it the     *)
(* SyncJob constructor of start_sync rejects the keyword; with it the job  *)
(* store keeps the reference.                                              *)
(***************************************************************************)
EXTENDS Integers, Sequences, FiniteSets, TLC

\* ------------------------------------------------------------------ bounds
MaxItems == 2      \* videos the remote channel lists
ScenarioItems == 3 \* videos the remote channel lists in SpecRetry
MaxFailures == 2   \* download attempts of a video that fail at first (SpecRetry)
MaxJobs == 2       \* job records ever created
MaxStarts == 2     \* start_sync coroutines in flight at once
MaxStops == 1      \* stop_sync coroutines in flight at once
MaxRestarts == 1   \* process restarts (SpecResume)
ResumeJobs == 1    \* job records ever created in SpecResume
MaxSockets == 2    \* websocket clients
MaxPublishes == 2  \* broadcast coroutines in flight at once
MaxFires == 2      \* occurrences of the auto-sync job that fire (SpecAuto)
MaxBytes == 2      \* byte counts a progress hook reports (SpecDownload)
MaxDownloads == 2  \* download calls per video (SpecDownload)
MaxUpdates == 2    \* PUT /config requests in flight (SpecConfig)
PageSize == 2      \* videos of one page of the channel's list (SpecPaging)
MaxVersions == 2   \* versions of a remote comment (SpecComments)
MaxSyncs == 2      \* comment syncs that get the same page (SpecComments)
MaxTimes == 2      \* times of day auto-sync is configured for (SpecAuto)

Videos == 1..ScenarioItems
StartSlots == 1..MaxStarts
StopSlots == 1..MaxStops
TaskIds == 1..(MaxJobs + 1)
Sockets == 1..MaxSockets
Publishers == 1..MaxPublishes

\* ------------------------------------------------------------- the inputs
\* job_type: the four kinds SyncJob.job_type documents.
JobTypes == {"full", "new_only", "metadata", "comments"}
\* channel rows in the database, and the channel_id values a request carries
\* (0 is Python's None, 2 names no row).
Channels == {1}
ChannelRefs == {0, 1, 2}
\* sync_time of configure: a time of day, 0 for None; sync_type: the kinds
\* SyncConfig.auto_sync_type documents.
SyncTimes == 0..MaxTimes
AutoSyncTypes == {"new_only", "full"}

\* ------------------------------------------------------------- VARIABLES
VARIABLES
    \* the database
    jobs,               \* sync_jobs: a sequence, the index is SyncJob.id
    error_logs,         \* error_logs: rows <<sync_job_id, video_id>> -> count
    sync_history,       \* sync_history: the sync_job_id of each row
    is_downloaded,      \* videos.is_downloaded per video
    download_queue,     \* download_queue: the rows of the table
    channel_column,     \* whether the mapped SyncJob has a channel_id attribute
    \* the remote platform
    listed,             \* how many videos the channel lists
    fail_plan,          \* per video: how many download attempts fail at first
    attempts,           \* per video: the download attempts made so far
    \* VideoDownloader and its worker threads
    progress_callback,  \* self.progress_callback: the video of the closure, 0 None
    current_video_id,   \* self.current_video_id, 0 for None
    transfers,          \* the videos whose _download_sync thread is running
    awaiting,           \* the _download_video coroutine suspended in the download
    last_progress,      \* the last download_progress message broadcast
    \* the comments table of one video
    comment_rows,       \* the rows of `comments`; a row's id is its index
    comment_page,       \* the "comments" of the last page _sync_comments got
    page_syncs,         \* how many syncs in a row got that page
    \* one call of _fetch_video_list
    fetch_pc,           \* "idle", "awaiting" a page, "returned" or "cancelled"
    page_token,         \* page_token: the offset of the next page, 0 for None
    all_videos,         \* all_videos
    requested,          \* the page tokens requested so far
    responses,          \* the results get_channel_videos returned so far
    \* the persisted configuration and the coroutines that read and write it
    sync_config,        \* the SyncConfig row
    load,               \* the _load_and_configure task of this process
    updates,            \* per request slot: one update_sync_config call
    \* the end of the process
    shutdown,           \* the shutdown() call, the job of the task it cancelled
                        \* and the jobs the next process found running
    \* TaskManager
    current_task,       \* self.current_task: a task id, 0 for None
    sync_progress,      \* self.sync_progress
    cancel_requested,   \* self.cancel_requested
    download_progress,  \* self.download_progress: the video ids it holds
    websocket_connections, \* self.websocket_connections
    \* the event loop
    tasks,              \* the asyncio tasks running _run_sync
    starts,             \* the coroutines inside start_sync / _resume_sync
    stops,              \* the coroutines inside stop_sync
    pubs,               \* the coroutines inside broadcast (SpecHub)
    broken,             \* sockets whose send_json raises (SpecHub)
    stalled,            \* sockets whose send_json does not return (SpecHub)
    proc,               \* "up", or "startup_failed" when lifespan raised
    restarts,           \* restarts so far
    events,             \* the messages handed to broadcast by the orchestrator
    \* SyncScheduler
    scheduled,          \* the jobs of self.scheduler with id "auto_sync"
    auto_runs,          \* occurrences of the auto-sync job fired so far
    \* history
    h_stopped,          \* jobs whose task a stop_sync cancelled
    h_done_items,       \* per job: the videos fully processed under it
    h_crash_processed,  \* per job: processed_items in the store at the restart
    h_configured,       \* the arguments of the last call of configure
    h_fired             \* the last occurrence fired and what it met

dbvars == <<jobs, error_logs, sync_history, is_downloaded>>
memvars == <<current_task, sync_progress, cancel_requested, download_progress>>
loopvars == <<tasks, starts, stops, proc, restarts, events>>
hubvars == <<websocket_connections, pubs, broken, stalled>>
histvars == <<h_stopped, h_done_items, h_crash_processed>>
schedvars == <<scheduled, auto_runs, h_configured, h_fired>>
fixedvars == <<listed, fail_plan, download_queue, channel_column>>
dlvars == <<progress_callback, current_video_id, transfers, awaiting,
            last_progress>>
commentvars == <<comment_rows, comment_page, page_syncs>>
pagevars == <<fetch_pc, page_token, all_videos, requested, responses>>
configvars == <<sync_config, load, updates>>
downvars == <<shutdown>>
sidevars == <<fixedvars, dlvars, commentvars, pagevars, configvars, downvars>>
envvars == <<sidevars, attempts>>
vars == <<dbvars, memvars, loopvars, hubvars, histvars, schedvars, envvars>>

\* ------------------------------------------------------------ the records
\* SyncProgress() (task_manager.py:28-37); 0 stands for None.
IdleProgress ==
    [job_id |-> 0, status |-> "idle", job_type |-> "none", channel_id |-> 0,
     total_items |-> 0, processed_items |-> 0, current_item |-> 0]

\* SyncProgress(job_id, SYNCING, job_type, channel_id) (task_manager.py:172-177)
NewProgress(job_id, job_type, channel_id) ==
    [job_id |-> job_id, status |-> "syncing", job_type |-> job_type,
     channel_id |-> channel_id, total_items |-> 0, processed_items |-> 0,
     current_item |-> 0]

\* SyncJob(job_type, time_filter, channel_id, status="running", started_at)
\* (task_manager.py:159-165); the counters and resume_from take the column
\* defaults of models/sync.py:28-32.
NewJob(job_type, channel_id) ==
    [job_type |-> job_type, channel_id |-> channel_id, status |-> "running",
     total_items |-> 0, processed_items |-> 0, failed_items |-> 0,
     resume_from |-> 0]

Terminal == {"completed", "failed", "cancelled"}

\* DownloadQueue.max_retries, the column default (models/sync.py:49).
max_retries == 3

\* DownloadQueue.retry_count of the row of a video (models/sync.py:48), the
\* column default 0 when the table has no row for it.
retry_count(v) ==
    LET rows == {q \in download_queue : q.video_id = v}
    IN IF rows = {} THEN 0 ELSE (CHOOSE q \in rows : TRUE).retry_count

\* What a call of the YouTube client raises (services/youtube_api.py:129-130,
\* 185-187, 191-192, 240-242, 332-338): a missing or refused API key, an
\* exhausted quota, a resource that is gone.
ErrorKinds == {"auth", "rate_limit", "not_found"}

\* One asyncio task running _run_sync: where it is suspended (pc), its
\* arguments, videos_to_sync (cands), the loop index, whether cancel() was
\* called on it, how many of its items failed so far, the exception `e`
\* of the except clause it is in ("none" outside one, "runtime" for the
\* RuntimeError of broadcast), and whether _sync_comments was called for the
\* item it is processing.
NoTask ==
    [pc |-> "none", job_id |-> 0, job_type |-> "none", channel_id |-> 0,
     cands |-> <<>>, i |-> 0, must_cancel |-> FALSE, failed |-> 0,
     e |-> "none", comments |-> FALSE]

IdleStart ==
    [pc |-> "idle", job_type |-> "none", channel_id |-> 0, resume_job_id |-> 0,
     job_id |-> 0]

IdleStop == [pc |-> "idle", job_id |-> 0]

\* `self.current_task and not self.current_task.done()`
\* (task_manager.py:67, 134, 187)
TaskActive(t) == tasks[t].pc \notin {"none", "done"}
CurrentTaskActive == current_task # 0 /\ TaskActive(current_task)

\* update(SyncJob).where(SyncJob.id == job_id).values(status=...)
\* (task_manager.py:194-196, 266-271, 301-307)
SetStatus(js, job_id, status) ==
    [js EXCEPT ![job_id].status = status]

\* _update_job_progress (task_manager.py:546-556): the snapshot's counters are
\* written to the row of job_id.
UpdateJobProgress(js, job_id, sp) ==
    [js EXCEPT ![job_id].total_items = sp.total_items,
               ![job_id].processed_items = sp.processed_items]

\* _log_error (task_manager.py:558-572): one more ErrorLog row.
LogError(el, job_id, video_id) ==
    [el EXCEPT ![<<job_id, video_id>>] = @ + 1]

\* asyncio.create_task: the new task takes a free id.
FreeTask == CHOOSE t \in TaskIds : tasks[t].pc = "none"

\* A task that ended is forgotten unless self.current_task still refers to it.
Ended(t) == IF t = current_task THEN [NoTask EXCEPT !.pc = "done"] ELSE NoTask

\* What `await self.broadcast(...)` can do to its caller while clients are
\* connected: return, or raise the RuntimeError of a subscriber set that
\* changed size during the iteration (SpecHub, PublishNext).
BroadcastOutcomes == {"ok", "raise"}

\* A message handed to broadcast, by its type and the job id of its data,
\* 0 for None or for data without one (task_manager.py:200-203, 286-292,
\* 311-314, 447-458).
Event(type, job_id) == [type |-> type, job_id |-> job_id]

\* get_current_status (task_manager.py:582-597): the snapshot's fields, the
\* percentage of the items processed (rounded down here) and the in-flight
\* downloads.
get_current_status ==
    [status |-> sync_progress.status,
     job_id |-> sync_progress.job_id,
     job_type |-> sync_progress.job_type,
     channel_id |-> sync_progress.channel_id,
     total_items |-> sync_progress.total_items,
     processed_items |-> sync_progress.processed_items,
     current_item |-> sync_progress.current_item,
     percent_complete |->
         IF sync_progress.total_items > 0
         THEN (sync_progress.processed_items * 100) \div sync_progress.total_items
         ELSE 0,
     downloads |-> download_progress]

\* ------------------------------------------------------------- start_sync
\* The start_sync coroutines that will insert a job record.
FreshInFlight ==
    {s \in StartSlots : /\ starts[s].pc = "sel"
                        /\ starts[s].resume_job_id = 0
                        /\ starts[s].channel_id \in Channels}

\* The mutant of StartSyncEnter: neither check raises.
StartSyncEnterNoRaise(s, job_type, channel_id, resume_job_id) ==
    /\ cancel_requested' = FALSE
    /\ starts' = [starts EXCEPT ![s] =
           [pc |-> "sel", job_type |-> job_type, channel_id |-> channel_id,
            resume_job_id |-> resume_job_id, job_id |-> 0]]

\* start_sync from its call to its first await (task_manager.py:134-153):
\* the single-flight guard and the channel_id check, which raise, then
\* cancel_requested = False.
StartSyncEnter(s, job_type, channel_id, resume_job_id) ==
    IF CurrentTaskActive \/ (channel_id = 0 /\ resume_job_id = 0)
    THEN /\ starts' = [starts EXCEPT ![s] = IdleStart]
         /\ UNCHANGED cancel_requested
    ELSE /\ cancel_requested' = FALSE
         /\ starts' = [starts EXCEPT ![s] =
                [pc |-> "sel", job_type |-> job_type, channel_id |-> channel_id,
                 resume_job_id |-> resume_job_id, job_id |-> 0]]

\* POST /sync/start (api/v1/sync.py:18-38), and the scheduler's _run_auto_sync,
\* which passes no channel_id (scheduler.py:82-85).  max_jobs bounds the job
\* records of the specification and job_types are the kinds it requests.
StartSyncCall(s, max_jobs, job_types) ==
    /\ proc = "up"
    /\ starts[s].pc = "idle"
    /\ \E job_type \in job_types, channel_id \in ChannelRefs :
          /\ channel_id \in Channels =>
                Len(jobs) + Cardinality(FreshInFlight) < max_jobs
          /\ StartSyncEnter(s, job_type, channel_id, 0)
    /\ UNCHANGED <<dbvars, current_task, sync_progress, download_progress,
                   tasks, stops, proc, restarts, events, hubvars, schedvars, envvars, histvars>>

\* start_sync resumed from its select (task_manager.py:143-168): the resumed
\* job is looked up, or the channel is verified and the new job committed.
\* SyncJob(..., channel_id=channel_id, ...) (lines 159-165) raises TypeError
\* when the mapped class has no channel_id attribute.
StartSyncPersist(s) ==
    /\ starts[s].pc = "sel"
    /\ LET st == starts[s] IN
       IF st.resume_job_id # 0
       THEN IF st.resume_job_id \in 1..Len(jobs)
            THEN /\ starts' = [starts EXCEPT ![s].pc = "commit",
                                  ![s].channel_id = jobs[st.resume_job_id].channel_id,
                                  ![s].job_id = st.resume_job_id]
                 /\ UNCHANGED jobs
            ELSE /\ starts' = [starts EXCEPT ![s] = IdleStart]
                 /\ UNCHANGED jobs
       ELSE IF st.channel_id \notin Channels
            THEN /\ starts' = [starts EXCEPT ![s] = IdleStart]
                 /\ UNCHANGED jobs
            ELSE IF ~channel_column
            THEN /\ starts' = [starts EXCEPT ![s] = IdleStart]
                 /\ UNCHANGED jobs
            ELSE /\ jobs' = Append(jobs, NewJob(st.job_type, st.channel_id))
                 /\ starts' = [starts EXCEPT ![s].pc = "commit",
                                  ![s].job_id = Len(jobs) + 1]
    /\ UNCHANGED <<error_logs, sync_history, is_downloaded, memvars, tasks, stops,
                   proc, restarts, events, hubvars, schedvars, envvars, histvars>>

\* start_sync after the session closed (task_manager.py:170-183): the snapshot
\* is replaced and the task created.
StartSyncLaunch(s) ==
    /\ starts[s].pc = "commit"
    /\ LET st == starts[s]
           t == FreeTask
       IN /\ sync_progress' = NewProgress(st.job_id, st.job_type, st.channel_id)
          /\ tasks' = [u \in TaskIds |->
                IF u = t
                THEN [NoTask EXCEPT !.pc = "created", !.job_id = st.job_id,
                                    !.job_type = st.job_type,
                                    !.channel_id = st.channel_id]
                ELSE IF tasks[u].pc = "done" THEN NoTask ELSE tasks[u]]
          /\ current_task' = t
          /\ starts' = [starts EXCEPT ![s] = IdleStart]
    /\ UNCHANGED <<dbvars, cancel_requested, download_progress, stops, proc,
                   restarts, events, hubvars, schedvars, envvars, histvars>>

\* -------------------------------------------------------------- stop_sync
\* stop_sync without the guard of line 187: the flag is set and the coroutine
\* goes on to its update or its broadcast whatever current_task is.
StopSyncCallUnguarded(k) ==
    /\ proc = "up"
    /\ stops[k].pc = "idle"
    /\ cancel_requested' = TRUE
    /\ stops' = [stops EXCEPT ![k] =
           [pc |-> IF sync_progress.job_id # 0 THEN "update" ELSE "broadcast",
            job_id |-> sync_progress.job_id]]
    /\ UNCHANGED <<dbvars, current_task, sync_progress, download_progress,
                   tasks, starts, proc, restarts, events, hubvars, schedvars,
                   envvars, histvars>>

\* stop_sync from its call to its first await (task_manager.py:185-198): a
\* no-op without an active current task; else the flag, the cancel() and,
\* when the snapshot names a job, the UPDATE of that job.
StopSyncCall(k) ==
    /\ proc = "up"
    /\ stops[k].pc = "idle"
    /\ IF ~CurrentTaskActive
       THEN UNCHANGED <<stops, cancel_requested, tasks, events, h_stopped>>
       ELSE /\ cancel_requested' = TRUE
            /\ tasks' = [tasks EXCEPT ![current_task].must_cancel = TRUE]
            /\ h_stopped' = h_stopped \cup {tasks[current_task].job_id}
            /\ IF sync_progress.job_id # 0
               THEN /\ stops' = [stops EXCEPT ![k] =
                          [pc |-> "update", job_id |-> sync_progress.job_id]]
                    /\ UNCHANGED events
               ELSE /\ stops' = [stops EXCEPT ![k] =
                          [pc |-> "broadcast", job_id |-> 0]]
                    /\ events' = events \cup
                          {Event("sync_cancelled", sync_progress.job_id)}
    /\ UNCHANGED <<dbvars, current_task, sync_progress, download_progress,
                   starts, proc, restarts, hubvars, schedvars, envvars, h_done_items,
                   h_crash_processed>>

\* stop_sync after its commit (task_manager.py:193-203): the job read from
\* the snapshot at the call is 'cancelled'; sync_cancelled is broadcast with
\* the job id the snapshot holds now.
StopSyncCommit(k) ==
    /\ stops[k].pc = "update"
    /\ jobs' = SetStatus(jobs, stops[k].job_id, "cancelled")
    /\ events' = events \cup {Event("sync_cancelled", sync_progress.job_id)}
    /\ stops' = [stops EXCEPT ![k].pc = "broadcast"]
    /\ UNCHANGED <<error_logs, sync_history, is_downloaded, memvars, tasks, starts,
                   proc, restarts, hubvars, schedvars, envvars, histvars>>

\* stop_sync after its broadcast (task_manager.py:200-205): the snapshot is
\* reset, unless the broadcast raised.
StopSyncFinish(k, faults) ==
    /\ stops[k].pc = "broadcast"
    /\ \E outcome \in BroadcastOutcomes :
          /\ outcome = "raise" => "broadcast" \in faults
          /\ sync_progress' = IF outcome = "ok" THEN IdleProgress ELSE sync_progress
    /\ stops' = [stops EXCEPT ![k] = IdleStop]
    /\ UNCHANGED <<dbvars, current_task, cancel_requested, download_progress, tasks,
                   starts, proc, restarts, events, hubvars, schedvars, envvars, histvars>>

\* -------------------------------------------------------------- _run_sync
Runnable(t, pc) == tasks[t].pc = pc /\ ~tasks[t].must_cancel

\* `finally: self.sync_progress = SyncProgress()` (task_manager.py:315-316),
\* after which the task is done.
Finally(t) ==
    /\ sync_progress' = IdleProgress
    /\ tasks' = [tasks EXCEPT ![t] = Ended(t)]

\* `except Exception` of _run_sync (task_manager.py:297-309): the job is
\* written 'failed'.
Fail(t, js, e) ==
    /\ jobs' = SetStatus(js, tasks[t].job_id, "failed")
    /\ tasks' = [tasks EXCEPT ![t].pc = "failing", ![t].e = e]

\* _fetch_video_list without the filter of lines 363-370: every job kind gets
\* the whole remote list.
CandidatesUnfiltered(job_type) == [n \in 1..listed |-> n]

\* _fetch_video_list's filter (task_manager.py:363-370): a new_only job drops
\* the videos marked downloaded; the remote list is kept in its order.
Candidates(job_type) ==
    LET all == [n \in 1..listed |-> n]
        NotDownloaded(v) == ~is_downloaded[v]
    IN IF job_type = "new_only" THEN SelectSeq(all, NotDownloaded) ELSE all

\* The head of the item loop and what follows it (task_manager.py:239-273):
\* the next candidate is announced with a sync_progress broadcast, or, at the
\* end of the list or with cancel_requested set, the job is written
\* 'completed'.
LoopHead(t, tk, sp, js) ==
    IF tk.i > Len(tk.cands) \/ cancel_requested
    THEN /\ jobs' = SetStatus(js, tk.job_id, "completed")
         /\ tasks' = [tasks EXCEPT ![t] = [tk EXCEPT !.pc = "completing"]]
         /\ sync_progress' = sp
    ELSE /\ jobs' = js
         /\ sync_progress' = [sp EXCEPT !.current_item = tk.cands[tk.i]]
         /\ tasks' = [tasks EXCEPT ![t] = [tk EXCEPT !.pc = "item"]]

\* The task's first run (task_manager.py:207-221): up to the await of the
\* channel select and of _sync_channel_info.
RunSyncBegin(t) ==
    /\ Runnable(t, "created")
    /\ tasks' = [tasks EXCEPT ![t].pc = "channel"]
    /\ UNCHANGED <<dbvars, memvars, starts, stops, proc, restarts, events,
                   hubvars, schedvars, envvars, histvars>>

\* After the channel refresh (task_manager.py:223-230): the first cancellation
\* check, then the video list is requested.
RunSyncChannel(t) ==
    /\ Runnable(t, "channel")
    /\ IF cancel_requested
       THEN Finally(t)
       ELSE /\ tasks' = [tasks EXCEPT ![t].pc = "list"]
            /\ UNCHANGED sync_progress
    /\ UNCHANGED <<dbvars, current_task, cancel_requested, download_progress,
                   starts, stops, proc, restarts, events, hubvars, schedvars, envvars, histvars>>

\* After the enumeration (task_manager.py:228-253): the list call may raise;
\* else the second cancellation check, total_items, _update_job_progress and
\* the first loop head.
RunSyncEnumerate(t, faults) ==
    /\ Runnable(t, "list")
    /\ \/ /\ "list" \in faults
          /\ \E e \in ErrorKinds : Fail(t, jobs, e)
          /\ UNCHANGED sync_progress
       \/ IF cancel_requested
          THEN Finally(t) /\ UNCHANGED jobs
          ELSE LET cands == Candidates(tasks[t].job_type)
                   sp == [sync_progress EXCEPT !.total_items = Len(cands)]
               IN LoopHead(t, [tasks[t] EXCEPT !.cands = cands, !.i = 1], sp,
                           UpdateJobProgress(jobs, tasks[t].job_id, sp))
    /\ UNCHANGED <<error_logs, sync_history, is_downloaded, current_task,
                   cancel_requested, download_progress, starts, stops, proc,
                   restarts, events, hubvars, schedvars, envvars, histvars>>

\* every job kind downloads media
NeedsMediaAnyKind(job_type) == TRUE

\* job kinds that download media / sync comments (task_manager.py:426, 430)
NeedsMedia(job_type) == job_type \in {"full", "new_only"}
NeedsComments(job_type) == job_type \in {"full", "new_only", "comments"}

\* _process_video up to the download (task_manager.py:244-259, 383-431),
\* entered when the sync_progress broadcast returns.  The broadcast may raise
\* (outside the per-item try); the details call, the upsert or the comment
\* sync may raise (inside it: one ErrorLog row without a video id).
RunSyncItem(t, faults) ==
    /\ Runnable(t, "item")
    /\ LET tk == tasks[t]
           v == tk.cands[tk.i]
       IN \/ /\ "broadcast" \in faults
             /\ Fail(t, jobs, "runtime")
             /\ UNCHANGED <<error_logs, sync_progress>>
          \/ /\ "item" \in faults
             /\ error_logs' = LogError(error_logs, tk.job_id, 0)
             /\ \E e \in ErrorKinds, in_comments \in BOOLEAN :
                   /\ in_comments => /\ NeedsComments(tk.job_type)
                                     /\ ~(NeedsMedia(tk.job_type) /\ ~is_downloaded[v])
                   /\ tasks' = [tasks EXCEPT ![t].pc = "post",
                                             ![t].failed = @ + 1, ![t].e = e,
                                             ![t].comments = in_comments]
             /\ UNCHANGED <<jobs, sync_progress>>
          \/ /\ NeedsMedia(tk.job_type) /\ ~is_downloaded[v]
             /\ sync_progress' = [sync_progress EXCEPT !.status = "downloading"]
             /\ tasks' = [tasks EXCEPT ![t].pc = "download"]
             /\ UNCHANGED <<jobs, error_logs>>
          \/ /\ ~(NeedsMedia(tk.job_type) /\ ~is_downloaded[v])
             /\ tasks' = [tasks EXCEPT ![t].pc = "post",
                                       ![t].comments = NeedsComments(tk.job_type)]
             /\ UNCHANGED <<jobs, error_logs, sync_progress>>
    /\ UNCHANGED <<sync_history, is_downloaded, current_task, cancel_requested,
                   download_progress, starts, stops, proc, restarts, events,
                   hubvars, schedvars, envvars, histvars>>

\* progress_callback (task_manager.py:437-458), scheduled on the loop by the
\* download thread's progress hook (services/video_downloader.py:25-60) while
\* the task is suspended in download_video: the video enters
\* self.download_progress and download_progress is broadcast, with the video's
\* ids and no job id.
ProgressCallback(t) ==
    /\ tasks[t].pc = "download"
    /\ download_progress' = download_progress \cup {tasks[t].cands[tasks[t].i]}
    /\ events' = events \cup {Event("download_progress", 0)}
    /\ UNCHANGED <<dbvars, current_task, sync_progress, cancel_requested,
                   tasks, starts, stops, proc, restarts, hubvars, schedvars,
                   envvars, histvars>>

\* _download_video after the download returned (task_manager.py:465-477) and
\* the comment sync that follows it (task_manager.py:430-431).
RunSyncDownload(t, faults) ==
    /\ Runnable(t, "download")
    /\ LET tk == tasks[t]
           v == tk.cands[tk.i]
       IN \E success \in BOOLEAN, comments_raise \in BOOLEAN :
            /\ attempts[v] < fail_plan[v] => ~success
            /\ ~success => attempts[v] < fail_plan[v] \/ "download" \in faults
            /\ attempts' = [attempts EXCEPT ![v] = @ + 1]
            /\ comments_raise => "item" \in faults /\ NeedsComments(tk.job_type)
            /\ LET el1 == IF success THEN error_logs
                          ELSE LogError(error_logs, tk.job_id, v)
                   el2 == IF comments_raise THEN LogError(el1, tk.job_id, 0)
                          ELSE el1
               IN /\ is_downloaded' = IF success
                                      THEN [is_downloaded EXCEPT ![v] = TRUE]
                                      ELSE is_downloaded
                  /\ error_logs' = el2
                  /\ download_progress' = download_progress \ {v}
                  /\ sync_progress' = [sync_progress EXCEPT !.status = "syncing"]
                  /\ \E e \in ErrorKinds :
                        tasks' = [tasks EXCEPT ![t].pc = "post",
                                  ![t].failed = IF success /\ ~comments_raise
                                                THEN @ ELSE @ + 1,
                                  ![t].e = IF comments_raise THEN e ELSE "none",
                                  ![t].comments = NeedsComments(tk.job_type)]
    /\ UNCHANGED <<jobs, sync_history, current_task, cancel_requested, starts,
                   stops, proc, restarts, events, hubvars, schedvars, sidevars,
                   histvars>>

\* After the item (task_manager.py:261-262) and on to the next loop head:
\* processed_items += 1, _update_job_progress.
RunSyncPost(t) ==
    /\ Runnable(t, "post")
    /\ LET tk == tasks[t]
           sp == [sync_progress EXCEPT !.processed_items = @ + 1]
       IN /\ LoopHead(t, [tk EXCEPT !.i = @ + 1, !.e = "none",
                                    !.comments = FALSE], sp,
                      UpdateJobProgress(jobs, tk.job_id, sp))
          /\ h_done_items' = [h_done_items EXCEPT ![tk.job_id] = @ \cup {tk.cands[tk.i]}]
    /\ UNCHANGED <<error_logs, sync_history, is_downloaded, current_task,
                   cancel_requested, download_progress, starts, stops, proc,
                   restarts, events, hubvars, schedvars, envvars, h_stopped, h_crash_processed>>

\* After the 'completed' commit (task_manager.py:275-292): the SyncHistory
\* row, then sync_completed is broadcast.
RunSyncCompleted(t) ==
    /\ Runnable(t, "completing")
    /\ sync_history' = sync_history \cup {tasks[t].job_id}
    /\ events' = events \cup {Event("sync_completed", tasks[t].job_id)}
    /\ tasks' = [tasks EXCEPT ![t].pc = "bc_done"]
    /\ UNCHANGED <<jobs, error_logs, is_downloaded, memvars, starts, stops, proc,
                   restarts, hubvars, schedvars, envvars, histvars>>

\* After the sync_completed broadcast (task_manager.py:286-316): the task
\* ends through `finally`, or the broadcast raised into `except Exception`.
RunSyncFinish(t, faults) ==
    /\ Runnable(t, "bc_done")
    /\ \E outcome \in BroadcastOutcomes :
          /\ outcome = "raise" => "broadcast" \in faults
          /\ IF outcome = "ok"
             THEN Finally(t) /\ UNCHANGED jobs
             ELSE Fail(t, jobs, "runtime") /\ UNCHANGED sync_progress
    /\ UNCHANGED <<error_logs, sync_history, is_downloaded, current_task,
                   cancel_requested, download_progress, starts, stops, proc,
                   restarts, events, hubvars, schedvars, envvars, histvars>>

\* After the 'failed' commit (task_manager.py:311-316): sync_error is
\* broadcast and, returned or raised, `finally` ends the task.
RunSyncError(t) ==
    /\ Runnable(t, "failing")
    /\ events' = events \cup {Event("sync_error", tasks[t].job_id)}
    /\ Finally(t)
    /\ UNCHANGED <<dbvars, current_task, cancel_requested, download_progress,
                   starts, stops, proc, restarts, hubvars, schedvars, envvars, histvars>>

\* A cancelled task resumes with CancelledError (task_manager.py:294-296,
\* 315-316): a task that never ran just ends; any other runs `finally`.
RunSyncCancelled(t) ==
    /\ TaskActive(t)
    /\ tasks[t].must_cancel
    /\ IF tasks[t].pc = "created"
       THEN /\ tasks' = [tasks EXCEPT ![t] = Ended(t)]
            /\ UNCHANGED sync_progress
       ELSE Finally(t)
    /\ UNCHANGED <<dbvars, current_task, cancel_requested, download_progress,
                   starts, stops, proc, restarts, events, hubvars, schedvars, envvars, histvars>>

\* One step of some task running _run_sync.
RunSync(t, faults) ==
    \/ RunSyncBegin(t)
    \/ RunSyncChannel(t)
    \/ RunSyncEnumerate(t, faults)
    \/ RunSyncItem(t, faults)
    \/ RunSyncDownload(t, faults)
    \/ RunSyncPost(t)
    \/ RunSyncCompleted(t)
    \/ RunSyncFinish(t, faults)
    \/ RunSyncError(t)
    \/ RunSyncCancelled(t)

\* -------------------------------------------------------- VideoDownloader
\* No _download_video coroutine is suspended in a download.
NoDownload == [video |-> 0, job_id |-> 0]

\* No download_progress message was broadcast yet.
NoProgress == [video |-> 0, source |-> 0, progress |-> <<0, 1>>]

\* The progress of a hook call with status 'downloading'
\* (services/video_downloader.py:28-42) as the fraction <<numerator,
\* denominator>>: downloaded_bytes / total_bytes * 100, 0 without a total.
HookProgress(downloaded_bytes, total_bytes) ==
    IF total_bytes > 0 THEN <<downloaded_bytes * 100, total_bytes>> ELSE <<0, 1>>

\* _download_video from its call to the await of the executor
\* (task_manager.py:433-463, services/video_downloader.py:62-104), for a video
\* not marked downloaded (task_manager.py:426): the snapshot says
\* DOWNLOADING, the downloader keeps the closure and the video id of this
\* call, and a worker thread starts the transfer.
DownloadVideoCall(v, j) ==
    /\ awaiting = NoDownload
    /\ ~is_downloaded[v]
    /\ attempts[v] < MaxDownloads
    /\ attempts' = [attempts EXCEPT ![v] = @ + 1]
    /\ sync_progress' = [sync_progress EXCEPT !.status = "downloading"]
    /\ progress_callback' = v
    /\ current_video_id' = v
    /\ transfers' = transfers \cup {v}
    /\ awaiting' = [video |-> v, job_id |-> j]
    /\ UNCHANGED <<dbvars, current_task, cancel_requested, download_progress,
                   loopvars, hubvars, histvars, schedvars, fixedvars,
                   commentvars, pagevars, configvars, downvars, last_progress>>

\* _progress_hook on the thread of the transfer of x and the coroutine it
\* schedules on the loop (services/video_downloader.py:25-60,
\* task_manager.py:437-458): the hook takes the callback from the downloader
\* and the callback takes the video from its own closure.
ProgressHook(x) ==
    /\ x \in transfers
    /\ progress_callback # 0
    /\ \E status \in {"downloading", "finished"},
          downloaded_bytes \in 0..MaxBytes, total_bytes \in 0..MaxBytes :
          last_progress' =
              [video |-> progress_callback, source |-> x,
               progress |-> IF status = "downloading"
                            THEN HookProgress(downloaded_bytes, total_bytes)
                            ELSE <<100, 1>>]
    /\ download_progress' = download_progress \cup {progress_callback}
    /\ events' = events \cup {Event("download_progress", 0)}
    /\ UNCHANGED <<dbvars, current_task, sync_progress, cancel_requested,
                   tasks, starts, stops, proc, restarts, hubvars, histvars,
                   schedvars, fixedvars, commentvars, pagevars, configvars, downvars, attempts,
                   progress_callback, current_video_id, transfers, awaiting>>

\* _download_video after the executor returned (task_manager.py:465-477):
\* the thread has ended; the video is marked downloaded or an ErrorLog row is
\* written, its entry is popped and the snapshot says SYNCING.
DownloadReturns ==
    /\ awaiting # NoDownload
    /\ LET v == awaiting.video IN
       /\ \E success \in BOOLEAN :
             /\ ~success => error_logs[<<awaiting.job_id, v>>] < MaxFailures
             /\ is_downloaded' = IF success
                                 THEN [is_downloaded EXCEPT ![v] = TRUE]
                                 ELSE is_downloaded
             /\ error_logs' = IF success THEN error_logs
                              ELSE LogError(error_logs, awaiting.job_id, v)
       /\ transfers' = transfers \ {v}
       /\ download_progress' = download_progress \ {v}
    /\ sync_progress' = [sync_progress EXCEPT !.status = "syncing"]
    /\ awaiting' = NoDownload
    /\ UNCHANGED <<jobs, sync_history, current_task, cancel_requested, loopvars,
                   hubvars, histvars, schedvars, fixedvars, commentvars, pagevars, configvars, downvars,
                   attempts, progress_callback, current_video_id,
                   last_progress>>

\* The task is cancelled while it awaits the executor (task_manager.py:189,
\* 294-296, 315-316): CancelledError leaves _download_video at line 460 and
\* `finally` resets the snapshot; the thread goes on.
DownloadCancelled ==
    /\ awaiting # NoDownload
    /\ awaiting' = NoDownload
    /\ sync_progress' = IdleProgress
    /\ UNCHANGED <<dbvars, current_task, cancel_requested, download_progress,
                   loopvars, hubvars, histvars, schedvars, fixedvars,
                   commentvars, pagevars, configvars, downvars, attempts, progress_callback, current_video_id,
                   transfers, last_progress>>

\* The thread of a transfer that nobody awaits any more ends
\* (services/video_downloader.py:173-176).
TransferEnds(x) ==
    /\ x \in transfers
    /\ x # awaiting.video
    /\ transfers' = transfers \ {x}
    /\ UNCHANGED <<dbvars, memvars, loopvars, hubvars, histvars, schedvars,
                   fixedvars, commentvars, pagevars, configvars, downvars, attempts, progress_callback,
                   current_video_id, awaiting, last_progress>>

\* ------------------------------------------------------------- comments
\* One comment as get_video_comments returns it
\* (services/youtube_api.py:288-324): version `ver` of the remote comment
\* `id`; a reply has reply_count 0 and no replies.
CommentData(id, ver, is_top_level, replies) ==
    [youtube_comment_id |-> id, text_original |-> ver, like_count |-> ver - 1,
     reply_count |-> IF is_top_level THEN ver - 1 ELSE 0,
     is_top_level |-> is_top_level, replies |-> replies]

Versions == 1..MaxVersions

\* The remote threads of the video: thread 1 with or without its reply 3,
\* thread 2 without replies.
Threads ==
    {CommentData(1, ver, TRUE, r) :
        ver \in Versions,
        r \in {<<>>} \cup {<<CommentData(3, rv, FALSE, <<>>)>> : rv \in Versions}}
    \cup {CommentData(2, ver, TRUE, <<>>) : ver \in Versions}

\* The pages get_video_comments can return
\* (services/youtube_api.py:270-331): distinct threads in some order.
Pages ==
    {<<a>> : a \in Threads}
    \cup {pg \in {<<a, b>> : a \in Threads, b \in Threads} :
             pg[1].youtube_comment_id # pg[2].youtube_comment_id}

RECURSIVE SaveComment(_, _, _)
RECURSIVE SaveReplies(_, _, _)
RECURSIVE SaveComments(_, _)

\* a lookup that finds no row
MatchingNone(rows, youtube_comment_id) == {}

\* select(Comment).where(Comment.youtube_comment_id == ...)
\* (task_manager.py:511-515): the ids of the rows selected.
Matching(rows, youtube_comment_id) ==
    {i \in 1..Len(rows) : rows[i].youtube_comment_id = youtube_comment_id}

\* _save_comment (task_manager.py:502-544): the row of the external id is
\* updated (text, like count, reply count) or a row is added and flushed,
\* then the replies are saved under the id of that row.  scalar_one_or_none
\* raises on several rows: nothing more is saved.
SaveComment(rows, comment_data, parent_id) ==
    LET found == Matching(rows, comment_data.youtube_comment_id)
        id == IF found = {} THEN Len(rows) + 1 ELSE CHOOSE i \in found : TRUE
        saved ==
            IF found = {}
            THEN Append(rows,
                        [youtube_comment_id |-> comment_data.youtube_comment_id,
                         parent_comment_id |-> parent_id,
                         text_original |-> comment_data.text_original,
                         like_count |-> comment_data.like_count,
                         reply_count |-> comment_data.reply_count,
                         is_top_level |-> comment_data.is_top_level])
            ELSE [rows EXCEPT ![id].text_original = comment_data.text_original,
                              ![id].like_count = comment_data.like_count,
                              ![id].reply_count = comment_data.reply_count]
    IN IF Cardinality(found) > 1 THEN rows
       ELSE SaveReplies(saved, comment_data.replies, id)

\* the loop over the replies (task_manager.py:543-544)
SaveReplies(rows, replies, parent_id) ==
    IF replies = <<>> THEN rows
    ELSE SaveReplies(SaveComment(rows, Head(replies), parent_id), Tail(replies),
                     parent_id)

\* the loop over the comments of a page (task_manager.py:493-494)
SaveComments(rows, comments) ==
    IF comments = <<>> THEN rows
    ELSE SaveComments(SaveComment(rows, Head(comments), 0), Tail(comments))

\* _sync_comments for a video whose comments come in one page
\* (task_manager.py:479-500): the page is saved and committed.
SyncComments(page) ==
    /\ page = comment_page => page_syncs < MaxSyncs
    /\ comment_page' = page
    /\ page_syncs' = IF page = comment_page THEN page_syncs + 1 ELSE 1
    /\ comment_rows' = SaveComments(comment_rows, page)
    /\ UNCHANGED <<dbvars, memvars, loopvars, hubvars, histvars, schedvars,
                   fixedvars, dlvars, pagevars, attempts, configvars, downvars>>

\* --------------------------------------------------------- enumeration
\* all_videos.extend(videos) the other way round
ExtendFront(videos, page) == page \o videos

\* all_videos.extend(videos) (task_manager.py:356-357)
Extend(videos, page) == videos \o page

\* What get_channel_videos can return for a page token
\* (services/youtube_api.py:148-184): the next videos of the uploads playlist,
\* at least one and at most PageSize of them, and a token while videos
\* remain.
ChannelVideos(token) ==
    {[videos |-> [k \in 1..n |-> token + k],
      next_page_token |-> IF token + n < listed THEN token + n ELSE 0] :
        n \in {m \in 0..PageSize : /\ token + m <= listed
                                   /\ m = 0 => token = listed}}

\* The head of the loop of _fetch_video_list (task_manager.py:345-354) with
\* `token` as page_token: the flag ends the loop, else the page is requested.
FetchLoopHead(token) ==
    /\ page_token' = token
    /\ IF cancel_requested
       THEN fetch_pc' = "returned" /\ UNCHANGED requested
       ELSE fetch_pc' = "awaiting" /\ requested' = Append(requested, token)

\* _fetch_video_list is called (task_manager.py:334-354).
FetchVideoListCall ==
    /\ fetch_pc = "idle"
    /\ all_videos' = <<>>
    /\ FetchLoopHead(0)
    /\ UNCHANGED <<dbvars, memvars, loopvars, hubvars, histvars, schedvars,
                   fixedvars, dlvars, commentvars, attempts, configvars, downvars, responses>>

\* get_channel_videos returns (task_manager.py:349-361): the videos are
\* appended; without a token the loop ends, else its head runs again.
FetchPageReturns ==
    /\ fetch_pc = "awaiting"
    /\ \E result \in ChannelVideos(page_token) :
          /\ all_videos' = Extend(all_videos, result.videos)
          /\ responses' = Append(responses, result)
          /\ IF result.next_page_token = 0
             THEN /\ fetch_pc' = "returned"
                  /\ page_token' = 0
                  /\ UNCHANGED requested
             ELSE FetchLoopHead(result.next_page_token)
    /\ UNCHANGED <<dbvars, memvars, loopvars, hubvars, histvars, schedvars,
                   fixedvars, dlvars, commentvars, attempts, configvars, downvars>>

\* stop_sync or shutdown while the list is fetched (task_manager.py:65-70,
\* 185-189): cancel_requested is set, and the task, if it is current_task,
\* is cancelled: CancelledError ends its await.
FetchStopped ==
    /\ ~cancel_requested
    /\ cancel_requested' = TRUE
    /\ \E is_current \in BOOLEAN :
          fetch_pc' = IF is_current /\ fetch_pc = "awaiting" THEN "cancelled"
                      ELSE fetch_pc
    /\ UNCHANGED <<dbvars, current_task, sync_progress, download_progress,
                   loopvars, hubvars, histvars, schedvars, fixedvars, dlvars,
                   commentvars, attempts, configvars, downvars, page_token, all_videos, requested,
                   responses>>

\* ------------------------------------------------- restart and the resume
RunningJobs == {j \in 1..Len(jobs) : jobs[j].status = "running"}

\* The process dies and starts again (main.py:11-18): memory is new, the
\* database is kept.  check_and_resume_sync (task_manager.py:95-108) selects
\* the running job with scalar_one_or_none(), which raises when there are
\* several, and creates the _resume_sync task for the one it finds.
Restart ==
    /\ restarts < MaxRestarts
    /\ restarts' = restarts + 1
    /\ current_task' = 0
    /\ sync_progress' = IdleProgress
    /\ cancel_requested' = FALSE
    /\ download_progress' = {}
    /\ tasks' = [t \in TaskIds |-> NoTask]
    /\ stops' = [k \in StopSlots |-> IdleStop]
    /\ h_crash_processed' = [j \in 1..MaxJobs |->
            IF j <= Len(jobs) THEN jobs[j].processed_items ELSE 0]
    /\ IF Cardinality(RunningJobs) > 1
       THEN /\ proc' = "startup_failed"
            /\ starts' = [s \in StartSlots |-> IdleStart]
       ELSE /\ proc' = "up"
            /\ starts' = [s \in StartSlots |->
                  IF s = 1 /\ RunningJobs # {}
                  THEN [IdleStart EXCEPT !.pc = "resume",
                            !.resume_job_id = CHOOSE j \in RunningJobs : TRUE]
                  ELSE IdleStart]
    /\ UNCHANGED <<dbvars, events, hubvars, schedvars, envvars, h_stopped, h_done_items>>

\* _resume_sync (task_manager.py:110-124) resumed from its select: the job
\* with a channel enters start_sync with the job's own type and channel.
ResumeSync(s) ==
    /\ starts[s].pc = "resume"
    /\ LET job == jobs[starts[s].resume_job_id] IN
       IF job.channel_id # 0
       THEN StartSyncEnter(s, job.job_type, job.channel_id, starts[s].resume_job_id)
       ELSE /\ starts' = [starts EXCEPT ![s] = IdleStart]
            /\ UNCHANGED cancel_requested
    /\ UNCHANGED <<dbvars, current_task, sync_progress, download_progress,
                   tasks, stops, proc, restarts, events, hubvars, schedvars, envvars, histvars>>

\* ------------------------------------------------------------- shutdown
NoShutdown == [pc |-> "none", job_id |-> 0, found |-> {}]

\* shutdown up to its await (task_manager.py:65-71), called by the lifespan
\* when the server has finished its requests (main.py:19-21): with an active
\* current task the flag is set, the task cancelled and awaited.
ShutdownCall ==
    /\ proc = "up"
    /\ shutdown.pc = "none"
    /\ restarts < MaxRestarts
    /\ \A s \in StartSlots : starts[s].pc = "idle"
    /\ \A k \in StopSlots : stops[k].pc = "idle"
    /\ proc' = "stopping"
    /\ IF CurrentTaskActive
       THEN /\ cancel_requested' = TRUE
            /\ tasks' = [tasks EXCEPT ![current_task].must_cancel = TRUE]
            /\ shutdown' = [NoShutdown EXCEPT !.pc = "awaiting",
                                !.job_id = tasks[current_task].job_id]
       ELSE /\ shutdown' = [NoShutdown EXCEPT !.pc = "down"]
            /\ UNCHANGED <<cancel_requested, tasks>>
    /\ UNCHANGED <<dbvars, current_task, sync_progress, download_progress,
                   starts, stops, restarts, events, hubvars, histvars,
                   schedvars, fixedvars, dlvars, commentvars, pagevars,
                   configvars, attempts>>

\* shutdown after `await self.current_task` (task_manager.py:71-75): the
\* CancelledError of the task is dropped and the process ends.
ShutdownAwaited ==
    /\ shutdown.pc = "awaiting"
    /\ ~TaskActive(current_task)
    /\ shutdown' = [shutdown EXCEPT !.pc = "down"]
    /\ UNCHANGED <<dbvars, memvars, loopvars, hubvars, histvars, schedvars,
                   fixedvars, dlvars, commentvars, pagevars, configvars,
                   attempts>>

\* The next process starts (main.py:11-18): memory is new, the database is
\* kept, and check_and_resume_sync (task_manager.py:95-108) creates the
\* _resume_sync task for the running job it finds; scalar_one_or_none()
\* raises when there are several.
StartAfterShutdown ==
    /\ shutdown.pc = "down"
    /\ shutdown' = [shutdown EXCEPT !.pc = "restarted", !.found = RunningJobs]
    /\ restarts' = restarts + 1
    /\ current_task' = 0
    /\ sync_progress' = IdleProgress
    /\ cancel_requested' = FALSE
    /\ download_progress' = {}
    /\ tasks' = [t \in TaskIds |-> NoTask]
    /\ stops' = [k \in StopSlots |-> IdleStop]
    /\ h_crash_processed' = [j \in 1..MaxJobs |->
            IF j <= Len(jobs) THEN jobs[j].processed_items ELSE 0]
    /\ IF Cardinality(RunningJobs) > 1
       THEN /\ proc' = "startup_failed"
            /\ starts' = [s \in StartSlots |-> IdleStart]
       ELSE /\ proc' = "up"
            /\ starts' = [s \in StartSlots |->
                  IF s = 1 /\ RunningJobs # {}
                  THEN [IdleStart EXCEPT !.pc = "resume",
                            !.resume_job_id = CHOOSE j \in RunningJobs : TRUE]
                  ELSE IdleStart]
    /\ UNCHANGED <<dbvars, events, hubvars, schedvars, fixedvars, dlvars,
                   commentvars, pagevars, configvars, attempts, h_stopped,
                   h_done_items>>

\* -------------------------------------------------- broadcast, subscribers
\* One call of broadcast (task_manager.py:85-93): where it is (pc), the set
\* iterator of its `for` (the size the set had when the iterator was made,
\* the sockets the set held then, the sockets it has yielded), the socket
\* whose send_json is awaited (0 for none), its local set `disconnected`, and
\* the sockets the message was delivered to.  A call that has ended keeps its
\* record until the next call takes its place.
IdlePub ==
    [pc |-> "idle", size |-> 0, start |-> {}, seen |-> {}, cur |-> 0,
     disconnected |-> {}, delivered |-> {}]

\* The sockets a broadcast in flight still refers to.
Referenced ==
    UNION {pubs[p].start \cup pubs[p].seen \cup pubs[p].disconnected :
              p \in {q \in Publishers : pubs[q].pc = "sending"}}

\* next() of the set iterator and the rest of broadcast up to its next await
\* (task_manager.py:88-93).  The iterator raises RuntimeError when the set's
\* size differs from the size at its creation; that is outside the try, so it
\* leaves broadcast.  Else it yields a socket it has not yielded; a socket
\* added since its creation lies before or after its position in the table,
\* so it may be yielded or missed.  At the end of the iteration the sockets
\* whose send raised are taken out of the set.
IterNext(p, pb) ==
    LET rest == websocket_connections \ pb.seen
        must == rest \cap pb.start
    IN IF Cardinality(websocket_connections) # pb.size
       THEN /\ pubs' = [pubs EXCEPT ![p] = [pb EXCEPT !.pc = "raised", !.cur = 0]]
            /\ UNCHANGED websocket_connections
       ELSE \/ \E w \in rest :
                 /\ pubs' = [pubs EXCEPT ![p] =
                        [pb EXCEPT !.pc = "sending", !.cur = w,
                                   !.seen = pb.seen \cup {w}]]
                 /\ UNCHANGED websocket_connections
            \/ /\ must = {}
               /\ pubs' = [pubs EXCEPT ![p] = [pb EXCEPT !.pc = "returned", !.cur = 0]]
               /\ websocket_connections' = websocket_connections \ pb.disconnected

HubFrame ==
    UNCHANGED <<dbvars, memvars, loopvars, histvars, schedvars, envvars>>

\* websocket_endpoint after accept (websocket.py:13-14) calls add_websocket
\* (task_manager.py:77-79) with a new WebSocket object.
AddWebsocket(w) ==
    /\ w \notin websocket_connections
    /\ w \notin Referenced
    /\ websocket_connections' = websocket_connections \cup {w}
    /\ broken' = broken \ {w}
    /\ stalled' = stalled \ {w}
    /\ UNCHANGED pubs
    /\ HubFrame

\* The client of a connected socket goes away: from now on send_json on it
\* raises (the `except Exception` of task_manager.py:91).
SocketBreaks(w) ==
    /\ w \in websocket_connections
    /\ w \notin broken
    /\ broken' = broken \cup {w}
    /\ stalled' = stalled \ {w}
    /\ UNCHANGED <<websocket_connections, pubs>>
    /\ HubFrame

\* The client of a connected socket stops reading while its connection stays
\* open: `await ws.send_json(message)` (task_manager.py:90), which has no
\* timeout, does not return for it until the connection breaks.
SocketStalls(w) ==
    /\ w \in websocket_connections
    /\ w \notin broken
    /\ w \notin stalled
    /\ stalled' = stalled \cup {w}
    /\ UNCHANGED <<websocket_connections, pubs, broken>>
    /\ HubFrame

\* The `finally` of websocket_endpoint (websocket.py:38-39) calls
\* remove_websocket (task_manager.py:81-83); the endpoint gets there when the
\* connection of a client that did not answer is gone.
RemoveWebsocket(w) ==
    /\ w \in websocket_connections
    /\ websocket_connections' = websocket_connections \ {w}
    /\ broken' = broken \cup ({w} \cap stalled)
    /\ stalled' = stalled \ {w}
    /\ UNCHANGED pubs
    /\ HubFrame

\* broadcast from its call to its first await (task_manager.py:85-89), or to
\* its return when no socket is connected.
BroadcastCall(p) ==
    /\ pubs[p].pc # "sending"
    /\ IterNext(p, [IdlePub EXCEPT !.size = Cardinality(websocket_connections),
                                   !.start = websocket_connections])
    /\ UNCHANGED <<broken, stalled>>
    /\ HubFrame

\* broadcast resumed from `await ws.send_json(message)` (task_manager.py:
\* 89-92): the send returned or raised, and the loop goes on.
BroadcastSent(p) ==
    /\ pubs[p].pc = "sending"
    /\ pubs[p].cur \notin stalled
    /\ LET pb == pubs[p]
           w == pb.cur
       IN IterNext(p, IF w \in broken
                      THEN [pb EXCEPT !.disconnected = pb.disconnected \cup {w}]
                      ELSE [pb EXCEPT !.delivered = pb.delivered \cup {w}])
    /\ UNCHANGED <<broken, stalled>>
    /\ HubFrame

\* ---------------------------------------------------------- SyncScheduler
\* The arguments of a configure call and whether it found a job to remove,
\* and of no call yet.
ConfigureArgs(enabled, sync_time, sync_type, replaced) ==
    [enabled |-> enabled, sync_time |-> sync_time, sync_type |-> sync_type,
     replaced |-> replaced]
NeverConfigured == ConfigureArgs(FALSE, 0, "none", FALSE)

\* add_job(self._run_auto_sync, CronTrigger(hour, minute), id=self.job_id,
\* args=[sync_type]) (scheduler.py:63-69): the job with its trigger's time of
\* day and its argument.
CronJob(sync_time, sync_type) == [sync_time |-> sync_time, sync_type |-> sync_type]

\* An occurrence fired: the job's time and argument, whether a task was
\* active, whether the job was not the one of the last configure call, and
\* whether that call had replaced an earlier job.
NeverFired ==
    [sync_time |-> 0, sync_type |-> "none", active |-> FALSE, stale |-> FALSE,
     reconfigured |-> FALSE]

\* configure (scheduler.py:51-74), a method without an await: the job with id
\* "auto_sync" is removed if there is one, and with enabled and a sync_time a
\* job is added for that time and kind.
RemoveJob(js) == IF js # {} THEN js \ {CHOOSE j \in js : TRUE} ELSE js

\* The mutants of ConfigureJobs: the existing job is not removed; it is
\* removed only by an enabling call.
ConfigureJobsKeepsOld(enabled, sync_time, sync_type) ==
    IF enabled /\ sync_time # 0
    THEN scheduled \cup {CronJob(sync_time, sync_type)}
    ELSE scheduled

ConfigureJobsDisableKeeps(enabled, sync_time, sync_type) ==
    IF enabled /\ sync_time # 0
    THEN {CronJob(sync_time, sync_type)}
    ELSE scheduled

ConfigureJobs(enabled, sync_time, sync_type) ==
    LET removed == RemoveJob(scheduled)
    IN IF enabled /\ sync_time # 0
       THEN RemoveJob(removed) \cup {CronJob(sync_time, sync_type)}
       ELSE removed

Configure(enabled, sync_time, sync_type) ==
    /\ proc = "up"
    /\ scheduled' = ConfigureJobs(enabled, sync_time, sync_type)
    /\ h_configured' = ConfigureArgs(enabled, sync_time, sync_type, scheduled # {})
    /\ UNCHANGED <<dbvars, memvars, loopvars, hubvars, histvars, envvars, auto_runs,
                   h_fired>>

\* get_next_run_time (scheduler.py:89-94): the time of the job with id
\* "auto_sync", 0 (None) when there is none.
get_next_run_time ==
    IF scheduled = {} THEN 0 ELSE (CHOOSE j \in scheduled : TRUE).sync_time

\* The time of day of a scheduled job arrives and _run_auto_sync
\* (scheduler.py:76-87) runs with the job's argument: start_sync is called
\* with job_type and time_filter="week" and no channel_id, and whatever it
\* raises is logged.  start_sync raises before its first await, so the
\* occurrence is one step.
AutoSyncFire(s) ==
    /\ proc = "up"
    /\ auto_runs < MaxFires
    /\ starts[s].pc = "idle"
    /\ \E j \in scheduled :
          /\ StartSyncEnter(s, j.sync_type, 0, 0)
          /\ h_fired' = [sync_time |-> j.sync_time, sync_type |-> j.sync_type,
                         active |-> \E t \in TaskIds : TaskActive(t),
                         stale |-> ~(/\ h_configured.enabled
                                    /\ h_configured.sync_time = j.sync_time
                                    /\ h_configured.sync_type = j.sync_type),
                         reconfigured |-> h_configured.replaced]
    /\ auto_runs' = auto_runs + 1
    /\ UNCHANGED <<dbvars, current_task, sync_progress, download_progress,
                   tasks, stops, proc, restarts, events, hubvars, histvars,
                   envvars, scheduled, h_configured>>

\* ------------------------------------------------------------------- Init
InitOrchestrator ==
    /\ jobs = <<>>
    /\ error_logs = [k \in (1..MaxJobs) \X ({0} \cup Videos) |-> 0]
    /\ sync_history = {}
    /\ is_downloaded = [v \in Videos |-> FALSE]
    /\ current_task = 0
    /\ sync_progress = IdleProgress
    /\ cancel_requested = FALSE
    /\ download_progress = {}
    /\ tasks = [t \in TaskIds |-> NoTask]
    /\ starts = [s \in StartSlots |-> IdleStart]
    /\ stops = [k \in StopSlots |-> IdleStop]
    /\ proc = "up"
    /\ restarts = 0
    /\ events = {}
    /\ h_stopped = {}
    /\ h_done_items = [j \in 1..MaxJobs |-> {}]
    /\ h_crash_processed = [j \in 1..MaxJobs |-> 0]

InitHubIdle ==
    /\ websocket_connections = {}
    /\ pubs = [p \in Publishers |-> IdlePub]
    /\ broken = {}
    /\ stalled = {}

\* The download_queue table, which nothing has written, and the remote
\* channel: MaxItems videos whose downloads fail only by a fault.
InitRemote ==
    /\ download_queue = {}
    /\ channel_column \in BOOLEAN
    /\ listed = MaxItems
    /\ fail_plan = [v \in Videos |-> 0]
    /\ attempts = [v \in Videos |-> 0]

\* The remote channel of the retry scenarios: ScenarioItems videos, each
\* with up to MaxFailures download attempts that fail before one succeeds.
InitScenarioRemote ==
    /\ download_queue = {}
    /\ channel_column \in BOOLEAN
    /\ listed = ScenarioItems
    /\ fail_plan \in [Videos -> 0..MaxFailures]
    /\ attempts = [v \in Videos |-> 0]

\* ------------------------------------------------- the configuration
UpdateSlots == 1..MaxUpdates

\* The columns of the SyncConfig row that the scheduler uses
\* (models/sync.py:9-11); sync_time 0 is None.
SyncConfigRow(enabled, sync_time, sync_type) ==
    [auto_sync_enabled |-> enabled, auto_sync_time |-> sync_time,
     auto_sync_type |-> sync_type]

\* SyncConfig() with the defaults of its columns, which is also what the
\* scheduler makes of a table without a row.
DefaultConfig == SyncConfigRow(FALSE, 0, "new_only")

SyncConfigs ==
    {SyncConfigRow(enabled, sync_time, sync_type) :
        enabled \in BOOLEAN, sync_time \in SyncTimes, sync_type \in AutoSyncTypes}

LoadDone == [pc |-> "done", config |-> DefaultConfig]
LoadCreated == [pc |-> "created", config |-> DefaultConfig]
IdleUpdate == [pc |-> "idle", config |-> DefaultConfig]

\* _load_and_configure up to its await (scheduler.py:38-41): the select is
\* issued.
LoadConfigRead ==
    /\ load.pc = "created"
    /\ load' = [pc |-> "reading", config |-> sync_config]
    /\ UNCHANGED <<dbvars, memvars, loopvars, hubvars, histvars, schedvars,
                   fixedvars, dlvars, commentvars, pagevars, downvars, attempts,
                   sync_config, updates>>

\* _load_and_configure after the select (scheduler.py:42-49): configure is
\* called with the row that was read, if it enables auto-sync with a time.
LoadConfigConfigure ==
    /\ load.pc = "reading"
    /\ load' = LoadDone
    /\ LET config == load.config
       IN IF config.auto_sync_enabled /\ config.auto_sync_time # 0
          THEN /\ scheduled' = ConfigureJobs(config.auto_sync_enabled,
                                             config.auto_sync_time,
                                             config.auto_sync_type)
               /\ h_configured' = ConfigureArgs(config.auto_sync_enabled,
                                                config.auto_sync_time,
                                                config.auto_sync_type,
                                                scheduled # {})
          ELSE UNCHANGED <<scheduled, h_configured>>
    /\ UNCHANGED <<dbvars, memvars, loopvars, hubvars, histvars, auto_runs,
                   h_fired, fixedvars, dlvars, commentvars, pagevars, downvars, attempts,
                   sync_config, updates>>

\* update_sync_config up to its first await (api/v1/sync.py:69-76): the
\* select of the row is issued.
UpdateConfigCall(u, config_update) ==
    /\ updates[u].pc = "idle"
    /\ updates' = [updates EXCEPT ![u] = [pc |-> "select",
                                          config |-> config_update]]
    /\ UNCHANGED <<dbvars, memvars, loopvars, hubvars, histvars, schedvars,
                   fixedvars, dlvars, commentvars, pagevars, downvars, attempts,
                   sync_config, load>>

\* update_sync_config after the select (api/v1/sync.py:77-90): the fields
\* are set and the commit is issued.
UpdateConfigCommit(u) ==
    /\ updates[u].pc = "select"
    /\ sync_config' = updates[u].config
    /\ updates' = [updates EXCEPT ![u].pc = "commit"]
    /\ UNCHANGED <<dbvars, memvars, loopvars, hubvars, histvars, schedvars,
                   fixedvars, dlvars, commentvars, pagevars, downvars, attempts, load>>

\* update_sync_config after the commit (api/v1/sync.py:90-91): the row is
\* read again by refresh.
UpdateConfigRefresh(u) ==
    /\ updates[u].pc = "commit"
    /\ updates' = [updates EXCEPT ![u] = [pc |-> "refresh",
                                          config |-> sync_config]]
    /\ UNCHANGED <<dbvars, memvars, loopvars, hubvars, histvars, schedvars,
                   fixedvars, dlvars, commentvars, pagevars, downvars, attempts,
                   sync_config, load>>

\* update_sync_config after the refresh (api/v1/sync.py:93-100): configure is
\* called with the row as refresh read it.
UpdateConfigConfigure(u) ==
    /\ updates[u].pc = "refresh"
    /\ LET config == updates[u].config
       IN /\ scheduled' = ConfigureJobs(config.auto_sync_enabled,
                                        config.auto_sync_time,
                                        config.auto_sync_type)
          /\ h_configured' = ConfigureArgs(config.auto_sync_enabled,
                                           config.auto_sync_time,
                                           config.auto_sync_type,
                                           scheduled # {})
    /\ updates' = [updates EXCEPT ![u] = IdleUpdate]
    /\ UNCHANGED <<dbvars, memvars, loopvars, hubvars, histvars, auto_runs,
                   h_fired, fixedvars, dlvars, commentvars, pagevars, downvars, attempts,
                   sync_config, load>>

\* VideoDownloader.__init__ (services/video_downloader.py:14-23): no callback,
\* no video, no thread.
InitDownloader ==
    /\ progress_callback = 0
    /\ current_video_id = 0
    /\ transfers = {}
    /\ awaiting = NoDownload
    /\ last_progress = NoProgress

\* SyncScheduler.__init__ (scheduler.py:16-19): no job is scheduled.
InitScheduler ==
    /\ scheduled = {}
    /\ auto_runs = 0
    /\ h_configured = NeverConfigured
    /\ h_fired = NeverFired

\* No comment was saved, no page fetched.
InitComments ==
    /\ comment_rows = <<>>
    /\ comment_page = <<>>
    /\ page_syncs = 0

\* _fetch_video_list was not called.
InitPaging ==
    /\ fetch_pc = "idle"
    /\ page_token = 0
    /\ all_videos = <<>>
    /\ requested = <<>>
    /\ responses = <<>>

\* A process whose startup load has finished over a table without a row
\* and that serves no update.
InitConfig ==
    /\ sync_config = DefaultConfig
    /\ load = LoadDone
    /\ updates = [u \in UpdateSlots |-> IdleUpdate]

\* shutdown was not called.
InitShutdown == shutdown = NoShutdown

InitSide ==
    /\ InitDownloader /\ InitComments /\ InitPaging /\ InitConfig
    /\ InitShutdown

\* A process right after sync_scheduler.start() (main.py:13-16,
\* scheduler.py:21-29) over the row an earlier process left: the load task is
\* created, no job is scheduled.
InitStartup ==
    /\ InitOrchestrator /\ InitHubIdle /\ InitScheduler /\ InitRemote
    /\ InitDownloader /\ InitComments /\ InitPaging /\ InitShutdown
    /\ sync_config \in SyncConfigs
    /\ load = LoadCreated
    /\ updates = [u \in UpdateSlots |-> IdleUpdate]

Init ==
    InitOrchestrator /\ InitHubIdle /\ InitScheduler /\ InitRemote /\ InitSide

InitScenario ==
    /\ InitOrchestrator /\ InitHubIdle /\ InitScheduler /\ InitScenarioRemote
    /\ InitSide

\* ------------------------------------------------------------------- Spec
StopSync(k, faults) ==
    \/ StopSyncCall(k)
    \/ StopSyncCommit(k)
    \/ StopSyncFinish(k, faults)

\* The orchestrator with MaxJobs job records.  To keep two overlapping jobs
\* within reach, the requests are for full and metadata jobs and the only
\* failure is that of listing the channel's videos.
RaceJobTypes == {"full", "metadata"}
RaceFaults == {"list"}

Next ==
    \/ \E s \in StartSlots : StartSyncCall(s, MaxJobs, RaceJobTypes)
    \/ \E s \in StartSlots : StartSyncPersist(s)
    \/ \E s \in StartSlots : StartSyncLaunch(s)
    \/ \E k \in StopSlots : StopSync(k, RaceFaults)
    \/ \E t \in TaskIds : RunSync(t, RaceFaults)

Spec == Init /\ [][Next]_vars

\* The orchestrator with one job record, every job kind and every failure of
\* the remote calls, the downloads and the broadcasts.
AllFaults == {"list", "item", "download", "broadcast"}

NextJob ==
    \/ \E s \in StartSlots : StartSyncCall(s, ResumeJobs, JobTypes)
    \/ \E s \in StartSlots : StartSyncPersist(s)
    \/ \E s \in StartSlots : StartSyncLaunch(s)
    \/ \E k \in StopSlots : StopSync(k, AllFaults)
    \/ \E t \in TaskIds : RunSync(t, AllFaults)
    \/ \E t \in TaskIds : ProgressCallback(t)

SpecJob == Init /\ [][NextJob]_vars

\* The same with the restart of the process.
NextResume ==
    \/ NextJob
    \/ \E s \in StartSlots : ResumeSync(s)
    \/ Restart

SpecResume == Init /\ [][NextResume]_vars

\* The scheduler beside the orchestrator with one job record: the requests of
\* the API are for full jobs and the only failure is that of listing the
\* channel's videos.
AutoJobTypes == {"full"}
AutoFaults == {"list"}

NextAuto ==
    \/ \E enabled \in BOOLEAN, sync_time \in SyncTimes, sync_type \in AutoSyncTypes :
          Configure(enabled, sync_time, sync_type)
    \/ \E s \in StartSlots : AutoSyncFire(s)
    \/ \E s \in StartSlots : StartSyncCall(s, ResumeJobs, AutoJobTypes)
    \/ \E s \in StartSlots : StartSyncPersist(s)
    \/ \E s \in StartSlots : StartSyncLaunch(s)
    \/ \E k \in StopSlots : StopSync(k, AutoFaults)
    \/ \E t \in TaskIds : RunSync(t, AutoFaults)

SpecAuto == Init /\ [][NextAuto]_vars

\* One full job over the channel of the retry scenarios; the only failures
\* are those of the downloads that the channel plans and that of listing its
\* videos.
RetryJobTypes == {"full"}
RetryFaults == {"list"}

NextRetry ==
    \/ \E s \in StartSlots : StartSyncCall(s, ResumeJobs, RetryJobTypes)
    \/ \E s \in StartSlots : StartSyncPersist(s)
    \/ \E s \in StartSlots : StartSyncLaunch(s)
    \/ \E k \in StopSlots : StopSync(k, RetryFaults)
    \/ \E t \in TaskIds : RunSync(t, RetryFaults)
    \/ \E t \in TaskIds : ProgressCallback(t)

SpecRetry == InitScenario /\ [][NextRetry]_vars

\* The scheduler alone: the calls of configure and the occurrences that fire
\* while the orchestrator is idle.
NextSched ==
    \/ \E enabled \in BOOLEAN, sync_time \in SyncTimes, sync_type \in AutoSyncTypes :
          Configure(enabled, sync_time, sync_type)
    \/ \E s \in StartSlots : AutoSyncFire(s)

SpecSched == Init /\ [][NextSched]_vars

\* The downloader under the successive _download_video calls of the jobs,
\* some of them cancelled while they wait.
NextDownload ==
    \/ \E v \in 1..listed, j \in 1..MaxJobs : DownloadVideoCall(v, j)
    \/ \E x \in Videos : ProgressHook(x)
    \/ DownloadReturns
    \/ DownloadCancelled
    \/ \E x \in Videos : TransferEnds(x)

SpecDownload == Init /\ [][NextDownload]_vars

\* One enumeration of a channel of ScenarioItems videos, stopped or not.
NextPaging ==
    \/ FetchVideoListCall
    \/ FetchPageReturns
    \/ FetchStopped

SpecPaging == InitScenario /\ [][NextPaging]_vars

\* Racing start requests, the shutdown of the process and the start of the
\* next one.
ShutdownJobTypes == {"full"}

NextShutdown ==
    \/ \E s \in StartSlots : StartSyncCall(s, MaxJobs, ShutdownJobTypes)
    \/ \E s \in StartSlots : StartSyncPersist(s)
    \/ \E s \in StartSlots : StartSyncLaunch(s)
    \/ \E k \in StopSlots : StopSync(k, RaceFaults)
    \/ \E t \in TaskIds : RunSync(t, RaceFaults)
    \/ ShutdownCall
    \/ ShutdownAwaited
    \/ StartAfterShutdown
    \/ \E s \in StartSlots : ResumeSync(s)

SpecShutdown == Init /\ [][NextShutdown]_vars

\* The startup load of the configuration and the update requests.
NextConfig ==
    \/ LoadConfigRead
    \/ LoadConfigConfigure
    \/ \E u \in UpdateSlots, config_update \in SyncConfigs :
          UpdateConfigCall(u, config_update)
    \/ \E u \in UpdateSlots : UpdateConfigCommit(u)
    \/ \E u \in UpdateSlots : UpdateConfigRefresh(u)
    \/ \E u \in UpdateSlots : UpdateConfigConfigure(u)

SpecConfig == InitStartup /\ [][NextConfig]_vars

\* The comment syncs of one video, one after another.
NextComments == \E page \in Pages : SyncComments(page)

SpecComments == Init /\ [][NextComments]_vars

\* broadcast and the websocket clients.
NextHub ==
    \/ \E w \in Sockets : AddWebsocket(w)
    \/ \E w \in Sockets : SocketBreaks(w)
    \/ \E w \in Sockets : SocketStalls(w)
    \/ \E w \in Sockets : RemoveWebsocket(w)
    \/ \E p \in Publishers : BroadcastCall(p)
    \/ \E p \in Publishers : BroadcastSent(p)

SpecHub == Init /\ [][NextHub]_vars

\* ----------------------------------------------------------------- claims
ActiveTasks == {t \in TaskIds : TaskActive(t)}

\* No coroutine of the orchestrator is in flight and no task is left.
Quiescent ==
    /\ ActiveTasks = {}
    /\ \A s \in StartSlots : starts[s].pc = "idle"
    /\ \A k \in StopSlots : stops[k].pc = "idle"

\* C1: single-flight.  In every reachable state at most one job is in
\* 'running' status and at most one orchestration task is active, whatever
\* the interleaving of the start requests.
C1_SingleFlight ==
    /\ Cardinality(RunningJobs) <= 1
    /\ Cardinality(ActiveTasks) <= 1

\* C2: while some job's orchestration task is active, a call of start_sync
\* raises at its guard: no start_sync coroutine gets past its call, so that
\* it creates no job, launches no task and leaves the cancellation flag and
\* the snapshot as they are.
C2_StartRejectedWhileActive ==
    [][ActiveTasks # {} =>
          \A s \in StartSlots : starts[s].pc = "idle" => starts'[s].pc = "idle"]_vars

\* C3: once stop_sync has cancelled a running job's task and every coroutine
\* has finished, the job's persisted status is 'cancelled'.
C3_StoppedEndsCancelled ==
    Quiescent => \A j \in h_stopped : jobs[j].status = "cancelled"

\* C4: a job whose persisted status is completed, failed or cancelled keeps
\* that status in every later step.
C4_TerminalImmutable ==
    [][\A j \in 1..Len(jobs) :
          jobs[j].status \in Terminal => jobs'[j].status = jobs[j].status]_vars

\* A task starts to process a candidate: it reaches the loop head for it.
BeginsItem(t) ==
    /\ tasks'[t].pc = "item"
    /\ tasks[t].pc # "item" \/ tasks[t].i # tasks'[t].i

\* C5: no task starts to process an item that was already fully processed
\* under its job (before a restart, the resume starts after it).
C5_ResumeSkipsDoneItems ==
    [][\A t \in TaskIds :
          BeginsItem(t) =>
              tasks'[t].cands[tasks'[t].i] \notin h_done_items[tasks'[t].job_id]]_vars

\* C6: after a restart the persisted processed_items of a job is never below
\* the value it had at the restart.
C6_ProcessedMonotonicAcrossRestart ==
    restarts > 0 =>
        \A j \in 1..Len(jobs) : jobs[j].processed_items >= h_crash_processed[j]

\* C7: when a task has written its job 'completed', the job's persisted
\* processed_items equals the number of candidates the task enumerated.
C7_ProcessedEqualsCandidates ==
    \A t \in TaskIds :
        tasks[t].pc \in {"completing", "bc_done"} =>
            jobs[tasks[t].job_id].processed_items = Len(tasks[t].cands)

\* C8: when a task has written its job 'completed', the job's persisted
\* failed_items equals the number of items whose processing failed.
C8_FailedItemsCounted ==
    \A t \in TaskIds :
        tasks[t].pc \in {"completing", "bc_done"} =>
            jobs[tasks[t].job_id].failed_items = tasks[t].failed

\* C9: broadcast returns normally to its caller: no call of broadcast ends
\* with an error, whatever the number of clients, the failures of the
\* deliveries and the connects, disconnects and other broadcasts that
\* interleave with it.
C9_PublishNeverRaises ==
    \A p \in Publishers : pubs[p].pc # "raised"

\* broadcast p ends in this step.
BroadcastEnds(p) ==
    /\ pubs[p].pc = "sending"
    /\ pubs'[p].pc \in {"returned", "raised"}

\* C10: when a broadcast ends during which the delivery to some client
\* failed, every such client is out of websocket_connections, and every
\* other client that was connected at the call and still is has received the
\* message and stays connected.
C10_FailedRemovedOthersServed ==
    [][\A p \in Publishers :
          BroadcastEnds(p) /\ pubs'[p].disconnected # {} =>
              /\ pubs'[p].disconnected \cap websocket_connections' = {}
              /\ \A w \in (pubs'[p].start \cap websocket_connections)
                              \ pubs'[p].disconnected :
                     w \in pubs'[p].delivered /\ w \in websocket_connections']_vars

\* C11: no call of broadcast is held by one client: a broadcast is never
\* waiting on the delivery to a client whose delivery does not finish, so
\* that it ends (and its caller goes on, and the clients after that one are
\* served) whatever that client does.
C11_PublishNotHeldBySubscriber ==
    \A p \in Publishers : ~(pubs[p].pc = "sending" /\ pubs[p].cur \in stalled)

\* An occurrence of the auto-sync job fires in this step.
AutoSyncFires == auto_runs' = auto_runs + 1

\* C12: when an occurrence of the auto-sync job fires while no task is
\* active, its start request is accepted: a start_sync coroutine gets past
\* its checks for a job of the configured kind, on its way to persist a job
\* in 'running' status.
C12_AutoSyncStartsJob ==
    [][AutoSyncFires /\ ActiveTasks = {} =>
          \E s \in StartSlots :
              /\ starts[s].pc = "idle"
              /\ starts'[s].pc = "sel"
              /\ starts'[s].job_type = h_fired'.sync_type]_vars

\* C13: when an occurrence of the auto-sync job fires while a task is active,
\* the step changes nothing of the orchestrator: no job record, no task, no
\* start_sync coroutine left in flight, the flag, the snapshot and the
\* process as they were.
C13_AutoSyncSkipsWhenActive ==
    [][AutoSyncFires /\ ActiveTasks # {} =>
          UNCHANGED <<dbvars, memvars, loopvars>>]_vars

\* C13 witness: an occurrence has fired while a task was active.
C13_FiredWhileActive ==
    auto_runs > 0 /\ h_fired.active

\* C14: at most one job is scheduled; a scheduled job has the time and the
\* kind of the last configure call, which was an enabling one; and no
\* occurrence has fired for a job other than the one of the last configure
\* call before it.
C14_OneScheduleOfLastConfigure ==
    /\ Cardinality(scheduled) <= 1
    /\ \A j \in scheduled :
          /\ h_configured.enabled
          /\ j.sync_time = h_configured.sync_time
          /\ j.sync_type = h_configured.sync_type
    /\ ~h_fired.stale

\* C14 witness: an occurrence has fired for a job that had replaced an
\* earlier one, and a job is scheduled.
C14_FiredAfterReconfiguration ==
    /\ auto_runs > 0
    /\ h_fired.reconfigured
    /\ scheduled # {}

\* C15: when the last configure call had enabled = false, no job is
\* scheduled and get_next_run_time is None.
C15_DisabledLeavesNothing ==
    ~h_configured.enabled => scheduled = {} /\ get_next_run_time = 0

\* C15 witness: a configure call with enabled = false has removed a
\* scheduled job.
C15_DisabledAfterScheduled ==
    /\ ~h_configured.enabled
    /\ h_configured.replaced
    /\ scheduled = {}

\* The scenario of C16: the channel lists ScenarioItems videos and the
\* download of video 2 fails twice, then succeeds; no other download fails.
FlakySecondItem ==
    /\ listed = ScenarioItems
    /\ fail_plan = [v \in Videos |-> IF v = 2 THEN 2 ELSE 0]

\* C16: in that scenario a full job that nothing stops and that has gone
\* through its candidates is 'completed' with processed_items the number of
\* videos listed, failed_items 0, video 2 marked downloaded and exactly 2
\* ErrorLog rows for video 2.
C16_FlakyDownloadRetried ==
    \A t \in TaskIds :
        /\ FlakySecondItem
        /\ h_stopped = {}
        /\ tasks[t].pc \in {"completing", "bc_done"}
        => LET j == tasks[t].job_id
           IN /\ jobs[j].status = "completed"
              /\ jobs[j].processed_items = listed
              /\ jobs[j].failed_items = 0
              /\ is_downloaded[2]
              /\ error_logs[<<j, 2>>] = 2

\* The download attempts of a video that failed so far (SpecRetry: the
\* downloads fail as the channel plans).
FailedAttempts(v) ==
    IF attempts[v] < fail_plan[v] THEN attempts[v] ELSE fail_plan[v]

\* C17: the retry counter of a video's DownloadQueue row is the number of its
\* failed download attempts, and an ErrorLog row for the video exists only
\* when that number exceeds max_retries.
C17_RetryCounterAndCeiling ==
    \A v \in Videos :
        /\ retry_count(v) = FailedAttempts(v)
        /\ (\E j \in 1..Len(jobs) : error_logs[<<j, v>>] > 0)
               => FailedAttempts(v) > max_retries

\* The step of a task in which _fetch_video_list returns its list to _run_sync.
EnumerationFinishes(t) ==
    /\ tasks[t].pc = "list"
    /\ tasks'[t].pc \in {"item", "completing"}

\* C18: when the enumeration of a new_only job finishes, no candidate is marked
\* downloaded; when that of a full job finishes, every video the channel lists
\* is a candidate, downloaded or not.
C18_CandidatesByKind ==
    [][\A t \in TaskIds :
          EnumerationFinishes(t) =>
              LET c == tasks'[t].cands
                  listed_in_c == {c[i] : i \in 1..Len(c)}
              IN /\ tasks[t].job_type = "new_only" =>
                        \A v \in listed_in_c : ~is_downloaded'[v]
                 /\ tasks[t].job_type = "full" => listed_in_c = 1..listed]_vars

\* C18's case: a new_only job is going through a candidate list from which
\* the filter dropped a downloaded video.
C18_NewOnlyDroppedDownloaded ==
    \E t \in TaskIds :
        /\ tasks[t].pc = "item"
        /\ tasks[t].job_type = "new_only"
        /\ Len(tasks[t].cands) < listed
        /\ \E v \in 1..listed : is_downloaded[v]

\* The steps of a start request that names a channel with no row: its call,
\* up to the select of the channel, and its return from that select.
UnknownChannelCall(s) ==
    /\ starts[s].pc = "idle"
    /\ starts'[s].pc = "sel"
    /\ starts'[s].resume_job_id = 0
    /\ starts'[s].channel_id \notin Channels

UnknownChannelReturn(s) ==
    /\ starts[s].pc = "sel"
    /\ starts[s].resume_job_id = 0
    /\ starts[s].channel_id \notin Channels
    /\ starts'[s] # starts[s]

\* C19: a start request naming an unknown channel ends without a job id and
\* changes nothing: no job row is added or altered, no task is launched, the
\* snapshot is left as it is, and a job that is still running keeps the
\* cancellation that was requested for it.
C19_UnknownChannelChangesNothing ==
    [][\A s \in StartSlots :
          /\ UnknownChannelReturn(s) => starts'[s] = IdleStart
          /\ UnknownChannelCall(s) \/ UnknownChannelReturn(s) =>
                /\ UNCHANGED <<jobs, tasks, current_task, sync_progress>>
                /\ ActiveTasks # {} => UNCHANGED cancel_requested]_vars

\* The steps of a new start request that names a channel with a row: its
\* return from the select of the channel, and its return to the caller.
KnownChannelReturn(s) ==
    /\ starts[s].pc = "sel"
    /\ starts[s].resume_job_id = 0
    /\ starts[s].channel_id \in Channels
    /\ starts'[s] # starts[s]

StartReturns(s) ==
    /\ starts[s].pc = "commit"
    /\ starts[s].resume_job_id = 0
    /\ starts'[s] # starts[s]

\* C20: a start request for a known channel that passed the single-flight
\* guard persists a new job in 'running' status, launches a task for that job
\* and returns with the task still before its first phase.
C20_KnownChannelStartsJob ==
    [][\A s \in StartSlots :
          /\ KnownChannelReturn(s) =>
                /\ Len(jobs') = Len(jobs) + 1
                /\ jobs'[Len(jobs')].status = "running"
                /\ starts'[s].pc = "commit"
                /\ starts'[s].job_id = Len(jobs')
          /\ StartReturns(s) =>
                /\ starts'[s] = IdleStart
                /\ \E t \in TaskIds :
                      /\ ~TaskActive(t)
                      /\ tasks'[t].pc = "created"
                      /\ tasks'[t].job_id = starts[s].job_id]_vars

\* C21: while no task is running a job, a call of stop_sync does not get past
\* its guard: no stop coroutine leaves idle, cancel_requested is not set, and
\* so nothing of what stop_sync does after the guard (the UPDATE of the job,
\* the sync_cancelled broadcast, the reset of the snapshot) happens for it.
C21_StopWithoutJobIsNoOp ==
    [][ActiveTasks = {} =>
          /\ \A k \in StopSlots : stops[k].pc = "idle" => stops'[k] = stops[k]
          /\ cancel_requested' => cancel_requested]_vars

\* C21's case: a job has ended, no task is left and a stop slot is free, so
\* that stop_sync is called with no active job.
C21_StopCallableWithoutJob ==
    /\ proc = "up"
    /\ ActiveTasks = {}
    /\ \E j \in 1..Len(jobs) : jobs[j].status \in Terminal
    /\ \E k \in StopSlots : stops[k].pc = "idle"

\* Where a task is suspended during phases 1-3 of _run_sync: the channel, the
\* enumeration and the item loop.
PhasePcs == {"created", "channel", "list", "item", "download", "post"}

\* C22: a task enters the `except Exception` handler, which writes its job
\* 'failed', only from a fault of phases 1-3, and the handler, unless it is
\* cancelled, broadcasts sync_error for that job.
C22_FailedOnlyFromPhaseFault ==
    [][\A t \in TaskIds :
          /\ tasks[t].pc # "failing" /\ tasks'[t].pc = "failing" =>
                /\ tasks[t].pc \in PhasePcs
                /\ jobs'[tasks[t].job_id].status = "failed"
          /\ tasks[t].pc = "failing" /\ tasks'[t].pc # "failing"
                                     /\ ~tasks[t].must_cancel =>
                Event("sync_error", tasks[t].job_id) \in events']_vars

\* C23: an authorization or configuration failure of a client call makes the
\* task that catches it abort its job as 'failed'; a rate-limit or not-found
\* failure is logged and the task goes on with its job.
C23_FaultKindDecides ==
    [][\A t \in TaskIds :
          tasks[t].e = "none" /\ tasks'[t].e \in ErrorKinds =>
              IF tasks'[t].e = "auth"
              THEN /\ tasks'[t].pc = "failing"
                   /\ jobs'[tasks[t].job_id].status = "failed"
              ELSE /\ tasks'[t].pc # "failing"
                   /\ jobs'[tasks[t].job_id].status = jobs[tasks[t].job_id].status
                   /\ error_logs' # error_logs]_vars

\* C24: once stop_sync has requested the cancellation of a running job and
\* every coroutine has run to its end, the job's persisted status is terminal
\* and no task holds the active-job slot.
C24_StoppedJobTerminates ==
    Quiescent =>
        /\ ~CurrentTaskActive
        /\ \A j \in h_stopped : jobs[j].status \in Terminal

\* C25: every event handed to broadcast carries the id of a job of the store,
\* and a sync_cancelled event carries the id of a job whose task a stop_sync
\* cancelled.
C25_EventsCarryJobId ==
    \A ev \in events :
        /\ ev.job_id \in 1..Len(jobs)
        /\ ev.type = "sync_cancelled" => ev.job_id \in h_stopped

\* C26: when no task is running a job and no start_sync or stop_sync is in
\* flight, get_current_status returns the idle snapshot: status idle, no job
\* id, zero counters, no current item and no in-flight download.
C26_IdleStatusWithoutJob ==
    Quiescent =>
        /\ get_current_status.status = "idle"
        /\ get_current_status.job_id = 0
        /\ get_current_status.total_items = 0
        /\ get_current_status.processed_items = 0
        /\ get_current_status.current_item = 0
        /\ get_current_status.percent_complete = 0
        /\ get_current_status.downloads = {}

\* C27: once every coroutine has ended, a job that went into its item loop
\* and was written 'completed' or 'cancelled' has its SyncHistory row.
C27_StatisticsForEveryEndedLoop ==
    Quiescent =>
        \A j \in 1..Len(jobs) :
            /\ jobs[j].status \in {"completed", "cancelled"}
            /\ h_done_items[j] # {}
            => j \in sync_history

\* The terminal events and the persisted status each announces.
TerminalEvents ==
    [sync_completed |-> "completed", sync_cancelled |-> "cancelled",
     sync_error |-> "failed"]

TerminalEventsOf(j) ==
    {ev \in events : ev.job_id = j /\ ev.type \in DOMAIN TerminalEvents}

\* C28: at most one terminal event is ever handed to broadcast for a job and,
\* once every coroutine has ended, its kind is that of the job's persisted
\* status.
C28_OneTerminalEventPerJob ==
    \A j \in 1..Len(jobs) :
        /\ Cardinality(TerminalEventsOf(j)) <= 1
        /\ Quiescent =>
              \A ev \in TerminalEventsOf(j) :
                  TerminalEvents[ev.type] = jobs[j].status

\* C29: while the current task is running a job and no stop_sync has
\* cancelled it, get_current_status reports that job's id with a status other
\* than idle.
C29_SnapshotFollowsRunningTask ==
    CurrentTaskActive /\ ~tasks[current_task].must_cancel =>
        /\ get_current_status.job_id = tasks[current_task].job_id
        /\ get_current_status.status # "idle"

\* C30: in every reachable state the snapshot and every persisted job have
\* 0 <= processed_items <= total_items, and the percentage that
\* get_current_status reports lies in 0..100.
C30_ProcessedWithinTotal ==
    /\ sync_progress.processed_items \in 0..sync_progress.total_items
    /\ get_current_status.percent_complete \in 0..100
    /\ \A j \in 1..Len(jobs) :
          jobs[j].processed_items \in 0..jobs[j].total_items

\* C31: every download_progress message names the video whose transfer
\* produced it.
C31_ProgressNamesItsTransfer ==
    last_progress.video = last_progress.source

\* C32: a video whose download call has returned with success is absent from
\* self.download_progress, whatever progress callback runs afterwards.
C32_ReturnedDownloadLeavesMap ==
    \A v \in download_progress : ~is_downloaded[v]

\* C39: the progress of a download_progress message is a fraction within
\* [0, 1].
C39_ProgressWithinUnit ==
    /\ last_progress.progress[1] >= 0
    /\ last_progress.progress[1] <= last_progress.progress[2]

\* C33: for an item whose processing reaches the two tests of _process_video,
\* the download is called exactly when the job type is full or new_only and
\* the video is not marked downloaded, and _sync_comments is called exactly
\* when the job type is full, new_only or comments; a metadata job calls
\* neither.
C33_DownloadAndCommentsByKind ==
    [][\A t \in TaskIds :
          LET tk == tasks[t]
              v == tk.cands[tk.i]
              called == tasks'[t].pc = "download"
              passed == tasks'[t].pc \in {"download", "post"}
                            /\ (tasks'[t].e = "none" \/ tasks'[t].comments)
          IN /\ tk.pc = "item" /\ passed =>
                  /\ called <=> /\ tk.job_type \in {"full", "new_only"}
                                /\ ~is_downloaded[v]
                  /\ ~called =>
                        (tasks'[t].comments
                            <=> tk.job_type \in {"full", "new_only", "comments"})
                  /\ tk.job_type = "metadata" => ~called /\ ~tasks'[t].comments
             /\ tk.pc = "download" /\ tasks'[t].pc = "post" =>
                  tasks'[t].comments
       ]_vars

\* C33: a comments job has passed a video on to the comment sync without a
\* download.
C33_CommentsJobSyncsComments ==
    \E t \in TaskIds :
        /\ tasks[t].pc = "post" /\ tasks[t].job_type = "comments"
        /\ tasks[t].e = "none" /\ tasks[t].comments
        /\ ~is_downloaded[tasks[t].cands[tasks[t].i]]

\* The comments of a page with the external id of their parent (0 for a
\* top-level comment).
PageComments(page) ==
    {[data |-> page[k], parent |-> 0] : k \in DOMAIN page}
    \cup UNION {{[data |-> page[k].replies[m],
                  parent |-> page[k].youtube_comment_id] :
                    m \in DOMAIN page[k].replies} : k \in DOMAIN page}

\* The ids of the rows of `comments` with an external id.
RowsOf(rows, youtube_comment_id) ==
    {i \in 1..Len(rows) : rows[i].youtube_comment_id = youtube_comment_id}

\* C34: after a comment sync, also one that got the page of the sync before,
\* every comment of the page has exactly one row, with the text, like count
\* and reply count of the page; a row that existed keeps its parent; a new
\* row of a reply has the id of its parent's row as parent, a new row of a
\* top-level comment has none.
C34_CommentsUpsertByExternalId ==
    [][(page_syncs' # page_syncs \/ comment_page' # comment_page) =>
        /\ \A c \in PageComments(comment_page') :
              /\ Cardinality(RowsOf(comment_rows', c.data.youtube_comment_id)) = 1
              /\ \A i \in RowsOf(comment_rows', c.data.youtube_comment_id) :
                    /\ comment_rows'[i].text_original = c.data.text_original
                    /\ comment_rows'[i].like_count = c.data.like_count
                    /\ comment_rows'[i].reply_count = c.data.reply_count
                    /\ i > Len(comment_rows) =>
                          IF c.parent = 0
                          THEN comment_rows'[i].parent_comment_id = 0
                          ELSE comment_rows'[i].parent_comment_id
                                   \in RowsOf(comment_rows', c.parent)
        /\ Len(comment_rows') >= Len(comment_rows)
        /\ \A i \in 1..Len(comment_rows) :
              comment_rows'[i].parent_comment_id = comment_rows[i].parent_comment_id
      ]_vars

\* C34: the same page was synced twice; it has a thread with a reply whose
\* row was there before the row of its parent got its latest values.
C34_SamePageSyncedTwice ==
    /\ page_syncs = 2
    /\ \E k \in DOMAIN comment_page : comment_page[k].replies # <<>>
    /\ Len(comment_rows) = 3
    /\ \E i \in 1..Len(comment_rows) : comment_rows[i].parent_comment_id # 0

RECURSIVE Concatenated(_)

\* The videos of a sequence of results, page after page.
Concatenated(results) ==
    IF results = <<>> THEN <<>>
    ELSE Concatenated(SubSeq(results, 1, Len(results) - 1))
             \o results[Len(results)].videos

C36_TriggerFollowsPersistedConfig ==
    (load.pc = "done" /\ \A u \in UpdateSlots : updates[u].pc = "idle") =>
        (scheduled # {}
            <=> sync_config.auto_sync_enabled /\ sync_config.auto_sync_time # 0)

\* C37: from the call of shutdown to the start of the next process no status
\* is written to the job of the cancelled task and no terminal event of it is
\* handed to broadcast; the next process finds the job of the cancelled task, if it was running, as the
\* one running job, creates its resume, and the resume adds no job record,
\* launches the task under the id of that job and leaves the job with a
\* task while it is running.
C37_ShutdownLeavesJobForResume ==
    [][/\ ((proc = "stopping" \/ proc' = "stopping") /\ shutdown'.job_id # 0) =>
            /\ Len(jobs') = Len(jobs)
            /\ jobs'[shutdown'.job_id].status = jobs[shutdown'.job_id].status
            /\ {ev \in events' : /\ ev.type \in DOMAIN TerminalEvents
                                  /\ ev.job_id = shutdown'.job_id}
                   = {ev \in events : /\ ev.type \in DOMAIN TerminalEvents
                                      /\ ev.job_id = shutdown'.job_id}
       /\ ( /\ shutdown.pc = "down" /\ shutdown'.pc = "restarted"
            /\ shutdown.job_id # 0
            /\ jobs[shutdown.job_id].status = "running" ) =>
            /\ proc' = "up"
            /\ starts'[1].pc = "resume"
            /\ starts'[1].resume_job_id = shutdown.job_id
            /\ jobs' = jobs
       /\ \A s \in StartSlots :
             ( /\ starts[s].resume_job_id # 0 /\ shutdown.pc = "restarted"
               /\ shutdown.job_id # 0
               /\ starts'[s] # starts[s] ) =>
                /\ Len(jobs') = Len(jobs)
                /\ starts[s].resume_job_id = shutdown.job_id
                /\ \A t \in TaskIds :
                      (tasks[t].pc = "none" /\ tasks'[t].pc = "created") =>
                          tasks'[t].job_id = shutdown.job_id
       /\ ( /\ shutdown'.pc = "restarted" /\ shutdown'.job_id # 0
            /\ jobs'[shutdown'.job_id].status = "running"
            /\ \A s \in StartSlots : starts'[s].pc = "idle"
            /\ \A k \in StopSlots : stops'[k].pc = "idle" ) =>
            \E t \in TaskIds :
                TaskActive(t)' /\ tasks'[t].job_id = shutdown'.job_id
      ]_vars

\* C38: once the next process has started and no coroutine of the
\* orchestrator is in flight and no task is left, so that nothing will write
\* a job status any more, no job that was found running at the start is
\* still running.
C38_FoundRunningLeavesRunning ==
    (shutdown.pc = "restarted" /\ Quiescent) =>
        \A j \in shutdown.found : jobs[j].status # "running"

=============================================================================
